---- MODULE Spec2Model ----
(***************************************************************************)
(* The geolocation client (src/app/page.tsx, component GeoPage) and the    *)
(* upload proxy (src/unnamed/part_000, route handler POST) as one state    *)
(* machine.  The client is a single-threaded React component: every        *)
(* handler, and every continuation of an async handler after an await,     *)
(* runs to completion and is one action.  The proxy handles each request   *)
(* independently; its await on the backend splits it into two actions.     *)
(***************************************************************************)
EXTENDS Integers, Sequences, FiniteSets, TLC

\* ---------------------------------------------------------------- bounds
\* File objects (and so preview URLs) handed to handleFileSelection.
MaxSelections == 2
\* Requests sent to the proxy route, by the client and by other callers.
MaxRequests == 2
\* Paste-button clipboard reads that may be pending at once.
MaxPastes == 1

\* ---------------------------------------------------------------- values
\* A nullable value is a sequence of length at most one: null is <<>>.
null == <<>>
Some(x) == <<x>>

\* The image contents a user can supply.
FileNames == {"a.png", "b.png"}

\* A File object: its content and its identity (every selection makes or
\* receives a new object).
File(name, id) == [name |-> name, id |-> id]

\* A JSON value as res.json() yields it.  kind "invalid" is a body that is
\* not JSON at all (res.json() rejects); has is the set of keys present.
Json(kind, has, lat, lon, confidence, error, details) ==
    [kind |-> kind, has |-> has, lat |-> lat, lon |-> lon,
     confidence |-> confidence, error |-> error, details |-> details]
JsonNull == Json("null", {}, "", "", "", "", "")
NotJson == Json("invalid", {}, "", "", "", "", "")
EmptyObject == Json("object", {}, "", "", "", "", "")
ErrorObject(msg) == Json("object", {"error"}, "", "", "", msg, "")
ErrorDetailsObject(msg, details) ==
    Json("object", {"error", "details"}, "", "", "", msg, details)

\* interface GeoResult: the backend's answer for an image.
GeoResult(name) ==
    Json("object", {"lat", "lon", "confidence"},
         "lat:" \o name, "lon:" \o name, "confidence:" \o name, "", "")
\* The same answer with the confidence key missing.
GeoResultNoConfidence(name) ==
    Json("object", {"lat", "lon"}, "lat:" \o name, "lon:" \o name, "", "", "")

\* Messages the JavaScript runtime puts in the errors it throws.
TypeErrorMessage == "Cannot read properties of null (reading 'error')"
SyntaxErrorMessage == "Unexpected token < in JSON at position 0"
FetchFailedMessage == "Failed to fetch"

\* ----------------------------------------------------------------- state
VARIABLES
    imageFile,    \* useState<File | null>
    previewUrl,   \* useState<string | null>: the number of the object URL
    loading,      \* useState(false)
    result,       \* useState<GeoResult | null>
    error,        \* useState<string | null>
    pastes,       \* onPasteClick calls suspended at navigator.clipboard.read()
    reqs,         \* requests to the proxy route not yet answered to their sender
    nextId,       \* number of the next request
    nextUrl,      \* number of the next File object / object URL
    liveUrls,     \* object URLs created and not revoked
    backendPosts, \* per request, the fetches the proxy made to the backend
    mounted,      \* the component is mounted: its handlers can run and its
                  \* setters take effect
    lastOp        \* the client handler (and its outcome) that ran last, or
                  \* "network" after a step of the proxy or its callers

vars == <<imageFile, previewUrl, loading, result, error, pastes, reqs,
          nextId, nextUrl, liveUrls, backendPosts, mounted, lastOp>>
client == <<imageFile, previewUrl, loading, result, error>>
selection == <<nextUrl, liveUrls>>
network == <<reqs, nextId, backendPosts>>

Init ==
    /\ imageFile = null
    /\ previewUrl = null
    /\ loading = FALSE
    /\ result = null
    /\ error = null
    /\ pastes = 0
    /\ reqs = {}
    /\ nextId = 1
    /\ nextUrl = 1
    /\ liveUrls = {}
    /\ backendPosts = [i \in 1..MaxRequests |-> 0]
    /\ mounted = TRUE
    /\ lastOp = "mount"

\* -------------------------------------------------------------- selection
\* The cleanup of useEffect(..., [previewUrl]): when previewUrl changes, the
\* URL of the previous render is revoked.
RevokePrevious(urls) ==
    IF previewUrl # null THEN urls \ {previewUrl[1]} ELSE urls

\* handleFileSelection without its setResult(null).
handleFileSelection_KeepResult(name) ==
    /\ nextUrl <= MaxSelections
    /\ error' = null
    /\ imageFile' = Some(File(name, nextUrl))
    /\ previewUrl' = Some(nextUrl)
    /\ nextUrl' = nextUrl + 1
    /\ liveUrls' = RevokePrevious(liveUrls) \cup {nextUrl}
    /\ UNCHANGED <<loading, result>>

\* handleFileSelection(file): the four setters, with URL.createObjectURL, and
\* the effect cleanup the re-render runs.
handleFileSelection(name) ==
    /\ nextUrl <= MaxSelections
    /\ error' = null
    /\ result' = null
    /\ imageFile' = Some(File(name, nextUrl))
    /\ previewUrl' = Some(nextUrl)
    /\ nextUrl' = nextUrl + 1
    /\ liveUrls' = RevokePrevious(liveUrls) \cup {nextUrl}
    /\ UNCHANGED loading

\* A handler that returns without touching the state.
NoEffect(op) ==
    /\ lastOp' = op
    /\ UNCHANGED <<client, pastes, network, selection, mounted>>

\* onFileChange: the file input's change event; files[0] may be absent.
onFileChange ==
    /\ mounted
    /\ \/ /\ \E name \in FileNames : handleFileSelection(name)
          /\ lastOp' = "select:file"
          /\ UNCHANGED <<pastes, network, mounted>>
       \/ NoEffect("file:none")

\* handleGlobalPaste: the window paste listener; only an image file selects.
handleGlobalPaste ==
    /\ mounted
    /\ \/ /\ \E name \in FileNames : handleFileSelection(name)
          /\ lastOp' = "select:ctrl-v"
          /\ UNCHANGED <<pastes, network, mounted>>
       \/ NoEffect("ctrl-v:none")

\* onPasteClick up to its first await.
onPasteClick ==
    /\ mounted
    /\ pastes < MaxPastes
    /\ pastes' = pastes + 1
    /\ lastOp' = "paste:click"
    /\ UNCHANGED <<client, network, selection, mounted>>

\* A failure path of onPasteClick that also drops the displayed result.
PasteError_ClearResult(message) ==
    /\ error' = Some(message)
    /\ result' = null
    /\ UNCHANGED <<imageFile, previewUrl, loading, selection>>

\* The two failure paths of onPasteClick: setError(message) and nothing else.
PasteError(message) ==
    /\ error' = Some(message)
    /\ UNCHANGED <<imageFile, previewUrl, loading, result, selection>>

\* handleFileSelection(file) called once the component has unmounted: React
\* ignores the four setters, and URL.createObjectURL(file) still makes a URL.
\* No render follows, so no effect cleanup will ever see that URL.
handleFileSelectionUnmounted(name) ==
    /\ nextUrl <= MaxSelections
    /\ nextUrl' = nextUrl + 1
    /\ liveUrls' = liveUrls \cup {nextUrl}
    /\ UNCHANGED client

\* onPasteClick after navigator.clipboard.read() settles: an image item is
\* selected, no image item sets an error, a rejected read sets another.  The
\* read may settle after the component has unmounted.
onPasteClickResume ==
    /\ pastes > 0
    /\ pastes' = pastes - 1
    /\ UNCHANGED <<network, mounted>>
    /\ IF mounted
       THEN \/ /\ \E name \in FileNames : handleFileSelection(name)
               /\ lastOp' = "select:paste"
            \/ /\ PasteError("No image found in clipboard.")
               /\ lastOp' = "paste:empty"
            \/ /\ PasteError("Clipboard access denied. Try Ctrl+V.")
               /\ lastOp' = "paste:denied"
       ELSE /\ lastOp' = "unmounted"
            /\ \/ \E name \in FileNames : handleFileSelectionUnmounted(name)
               \/ UNCHANGED <<client, selection>>

\* The component unmounts: the cleanup of useEffect(..., [previewUrl]) revokes
\* the URL of the last render, and the paste listener is removed.
Unmount ==
    /\ mounted
    /\ mounted' = FALSE
    /\ liveUrls' = RevokePrevious(liveUrls)
    /\ lastOp' = "unmount"
    /\ UNCHANGED <<client, pastes, network, nextUrl>>

\* ----------------------------------------------------------------- submit
\* A request on its way: the multipart file field, who sent it, where it is
\* ("sent", "backend": the proxy awaits the backend, "replied"), who answered
\* it, the answer, and what the backend had answered the proxy.
Request(id, from, file) ==
    [id |-> id, from |-> from, file |-> file, stage |-> "sent", by |-> "",
     status |-> 0, body |-> NotJson, backendStatus |-> 0, backendText |-> ""]

\* The client's fetches that have not settled.
InFlight == {r \in reqs : r.from = "client"}

\* A disabled attribute that forgets the loading flag.
Disabled_IgnoreLoading == imageFile = null

\* The Locate button's disabled attribute.
Disabled == imageFile = null \/ loading

\* handleLocate without its setResult(null).
handleLocate_KeepResult ==
    IF imageFile = null
    THEN NoEffect("locate:no-image")
    ELSE /\ nextId <= MaxRequests
         /\ loading' = TRUE
         /\ error' = null
         /\ reqs' = reqs \cup {Request(nextId, "client", imageFile)}
         /\ nextId' = nextId + 1
         /\ lastOp' = "locate:sent"
         /\ UNCHANGED <<imageFile, previewUrl, result, pastes, selection,
                        backendPosts, mounted>>

\* handleLocate up to its await of fetch.
handleLocate ==
    IF imageFile = null
    THEN NoEffect("locate:no-image")
    ELSE /\ nextId <= MaxRequests
         /\ loading' = TRUE
         /\ error' = null
         /\ result' = null
         /\ reqs' = reqs \cup {Request(nextId, "client", imageFile)}
         /\ nextId' = nextId + 1
         /\ lastOp' = "locate:sent"
         /\ UNCHANGED <<imageFile, previewUrl, pastes, selection, backendPosts,
                        mounted>>

\* A Locate button that is never disabled, on a handler without its early
\* return: the form is posted whatever imageFile holds.
LocateClick_Unguarded ==
    /\ nextId <= MaxRequests
    /\ loading' = TRUE
    /\ error' = null
    /\ result' = null
    /\ reqs' = reqs \cup {Request(nextId, "client", imageFile)}
    /\ nextId' = nextId + 1
    /\ lastOp' = "locate:sent"
    /\ UNCHANGED <<imageFile, previewUrl, pastes, selection, backendPosts,
                   mounted>>

\* A click on the Locate button: a disabled button runs no handler.
LocateClick ==
    /\ mounted
    /\ IF Disabled THEN NoEffect("locate:disabled") ELSE handleLocate

\* Response.ok
Ok(status) == status \in 200..299

\* What the body of handleLocate's try block comes to once fetch resolved
\* with (status, body): a value for setResult, or a thrown Error's message.
Returned(data) == [thrown |-> FALSE, data |-> data, message |-> ""]
Thrown(message) == [thrown |-> TRUE, data |-> JsonNull, message |-> message]

ReadResponse(status, body) ==
    IF ~Ok(status)
    THEN LET errData == IF body.kind = "invalid" THEN EmptyObject ELSE body
         IN  IF errData.kind = "null"
             THEN Thrown(TypeErrorMessage)
             ELSE IF "error" \in errData.has /\ errData.error # ""
                  THEN Thrown(errData.error)
                  ELSE Thrown("Server Error: " \o ToString(status))
    ELSE IF body.kind = "invalid"
         THEN Thrown(SyntaxErrorMessage)
         ELSE Returned(body)

\* The rest of handleLocate, given how the try block ended: setResult(data)
\* or the catch's setError, then the finally's setLoading(false).  React
\* ignores the setters once the component has unmounted.
Settle(outcome, op) ==
    IF mounted
    THEN /\ IF outcome.thrown
            THEN /\ error' = Some(IF outcome.message # "" THEN outcome.message
                                  ELSE "Something went wrong.")
                 /\ UNCHANGED result
            ELSE /\ result' = IF outcome.data.kind = "null" THEN null
                              ELSE Some(outcome.data)
                 /\ UNCHANGED error
         /\ loading' = FALSE
         /\ lastOp' = op
         /\ UNCHANGED <<imageFile, previewUrl, selection>>
    ELSE /\ lastOp' = "unmounted"
         /\ UNCHANGED <<client, selection>>

\* handleLocate resumes with the response of its fetch.
LocateResponse(r) ==
    /\ r \in InFlight
    /\ r.stage = "replied"
    /\ Settle(ReadResponse(r.status, r.body), "locate:response")
    /\ reqs' = reqs \ {r}
    /\ UNCHANGED <<pastes, nextId, backendPosts, mounted>>

\* handleLocate resumes with fetch rejected: the network failed before an
\* answer arrived.  The request is not followed any further.
LocateNetworkFailure(r) ==
    /\ r \in InFlight
    /\ \E message \in {FetchFailedMessage, ""} :
           Settle(Thrown(message), "locate:rejected")
    /\ reqs' = reqs \ {r}
    /\ UNCHANGED <<pastes, nextId, backendPosts, mounted>>

\* ------------------------------------------------------------------ proxy
\* NextResponse.json(data, {status}): the body is data, serialised.
NextResponseJson(r, data, status) ==
    [r EXCEPT !.stage = "replied", !.by = "proxy", !.status = status,
              !.body = data]

\* A POST that checks for the file only after it has called the backend.
ProxyNoFile_AfterFetch(r) ==
    /\ r \in reqs
    /\ r.stage = "sent"
    /\ r.file = null
    /\ backendPosts' = [backendPosts EXCEPT ![r.id] = @ + 1]
    /\ reqs' = (reqs \ {r})
               \cup {NextResponseJson(r, ErrorObject("No file uploaded"), 400)}
    /\ lastOp' = "network"
    /\ UNCHANGED <<client, pastes, selection, nextId, mounted>>

\* POST, when formData.get('file') is null.
ProxyNoFile(r) ==
    /\ r \in reqs
    /\ r.stage = "sent"
    /\ r.file = null
    /\ reqs' = (reqs \ {r})
               \cup {NextResponseJson(r, ErrorObject("No file uploaded"), 400)}
    /\ lastOp' = "network"
    /\ UNCHANGED <<client, pastes, selection, nextId, backendPosts, mounted>>

\* POST, up to its await of the fetch to the backend.
ProxyForward(r) ==
    /\ r \in reqs
    /\ r.stage = "sent"
    /\ r.file # null
    /\ backendPosts' = [backendPosts EXCEPT ![r.id] = @ + 1]
    /\ reqs' = (reqs \ {r}) \cup {[r EXCEPT !.stage = "backend"]}
    /\ lastOp' = "network"
    /\ UNCHANGED <<client, pastes, selection, nextId, mounted>>

\* What the backend can answer for an image: success with a body, or a
\* failure status with a raw text.
BackendErrorStatuses == {500, 503}
BackendErrorTexts == {"model unavailable", ""}
BackendBodies(name) ==
    {GeoResult(name), GeoResultNoConfidence(name), JsonNull, NotJson}

\* A POST that answers every backend failure with status 500.
ProxyBackendError_Status500(r, status, errorText) ==
    NextResponseJson([r EXCEPT !.backendStatus = status,
                               !.backendText = errorText],
                     ErrorObject("GeoAPI error: " \o errorText), 500)

\* POST, when the backend answered !response.ok.
ProxyBackendError(r, status, errorText) ==
    NextResponseJson([r EXCEPT !.backendStatus = status,
                               !.backendText = errorText],
                     ErrorObject("GeoAPI error: " \o errorText), status)

\* POST, when the backend answered ok: response.json() and its relay, or
\* the catch when the body does not parse.
ProxyBackendOk(r, body) ==
    IF body.kind = "invalid"
    THEN NextResponseJson([r EXCEPT !.backendStatus = 200],
             ErrorDetailsObject("Internal Server Error", SyntaxErrorMessage),
             500)
    ELSE NextResponseJson([r EXCEPT !.backendStatus = 200], body, 200)

\* POST, when the fetch to the backend rejected: the catch.
ProxyCatch(r) ==
    NextResponseJson(r, ErrorDetailsObject("Internal Server Error",
                                           "fetch failed"), 500)

\* POST resumes once the fetch to the backend settled.
ProxyRelay(r) ==
    /\ r \in reqs
    /\ r.stage = "backend"
    /\ \E answer \in
           {ProxyBackendOk(r, b) : b \in BackendBodies(r.file[1].name)}
           \cup {ProxyBackendError(r, s, t) :
                     s \in BackendErrorStatuses, t \in BackendErrorTexts}
           \cup {ProxyCatch(r)} :
         reqs' = (reqs \ {r}) \cup {answer}
    /\ lastOp' = "network"
    /\ UNCHANGED <<client, pastes, selection, nextId, backendPosts, mounted>>

\* ------------------------------------------------------------ environment
\* The host in front of the route answers the client's fetch itself (a
\* gateway error page, an empty or null body), and the route does not run.
HostStatuses == {200, 502}
HostBodies == {NotJson, JsonNull, EmptyObject, ErrorObject("")}

HostReply(r) ==
    /\ r \in InFlight
    /\ r.stage = "sent"
    /\ \E status \in HostStatuses, body \in HostBodies :
         reqs' = (reqs \ {r})
                 \cup {[r EXCEPT !.stage = "replied", !.by = "host",
                                 !.status = status, !.body = body]}
    /\ lastOp' = "network"
    /\ UNCHANGED <<client, pastes, selection, nextId, backendPosts, mounted>>

\* Another caller of the route sends a multipart body without the file
\* field (this client always appends one).  The route shares no state between
\* requests, so one such caller at a time shows all it can do.
ExternalRequest ==
    /\ nextId <= MaxRequests
    /\ reqs \ InFlight = {}
    /\ reqs' = reqs \cup {Request(nextId, "external", null)}
    /\ nextId' = nextId + 1
    /\ lastOp' = "network"
    /\ UNCHANGED <<client, pastes, selection, backendPosts, mounted>>

\* The answer reaches that caller.
ExternalResponse(r) ==
    /\ r \in reqs \ InFlight
    /\ r.stage = "replied"
    /\ reqs' = reqs \ {r}
    /\ lastOp' = "network"
    /\ UNCHANGED <<client, pastes, selection, nextId, backendPosts, mounted>>

\* ----------------------------------------------------------------- render
\* {result && (...)}: the result panel is rendered for any non-null result.
ResultPanelShown == result # null

\* The fields the result panel reads from result: lat.toFixed, lon.toFixed,
\* confidence * 100, and lat, lon in the map link.
ResultPanelFields == {"lat", "lon", "confidence"}

\* ------------------------------------------------------------------- spec
Next ==
    \/ onFileChange
    \/ handleGlobalPaste
    \/ onPasteClick
    \/ onPasteClickResume
    \/ LocateClick
    \/ \E r \in reqs : LocateResponse(r)
    \/ \E r \in reqs : LocateNetworkFailure(r)
    \/ \E r \in reqs : ProxyNoFile(r)
    \/ \E r \in reqs : ProxyForward(r)
    \/ \E r \in reqs : ProxyRelay(r)
    \/ \E r \in reqs : HostReply(r)
    \/ ExternalRequest
    \/ \E r \in reqs : ExternalResponse(r)
    \/ Unmount

Spec == Init /\ [][Next]_vars

\* ----------------------------------------------------------------- claims
SelectOps == {"select:file", "select:ctrl-v", "select:paste"}
LocateOps == {"locate:disabled", "locate:no-image", "locate:sent"}
SettleOps == {"locate:response", "locate:rejected"}
PasteMessages ==
    {"No image found in clipboard.", "Clipboard access denied. Try Ctrl+V."}

\* C1: at most one geolocate request of the client is in flight in every
\* reachable state, and while the component is mounted one is in flight
\* exactly while loading is true, so a click on Locate while loading adds no
\* second fetch.
C1_AtMostOneInFlight ==
    /\ Cardinality(InFlight) <= 1
    /\ mounted => (loading <=> InFlight # {})

\* C1 witness: Locate was clicked while the one request was in flight.
C1_Witness ==
    lastOp = "locate:disabled" /\ loading /\ Cardinality(InFlight) = 1

\* C2 (as claimed): when the request that settles was sent for an image
\* other than the one now selected, settling it leaves result and error as
\* the newer selection left them.
C2_StaleOutcomeIgnored ==
    [][(/\ lastOp' \in SettleOps
        /\ \E r \in InFlight : r.file[1].name # imageFile[1].name)
          => (result' = result /\ error' = error)]_vars

\* C3: right after a selection by any path (file input, Paste button, global
\* paste) the image and the preview are non-null and result and error are
\* null.
C3_SelectionClears ==
    lastOp \in SelectOps =>
        /\ imageFile # null
        /\ previewUrl # null
        /\ result = null
        /\ error = null

\* C3 witness: a second image was selected through the Paste button after a
\* request for the first had completed.
C3_Witness ==
    /\ lastOp = "select:paste"
    /\ previewUrl = Some(2)
    /\ nextId > 1
    /\ ~loading
    /\ result = null

\* C4 (as claimed): loading, a non-null result and a non-null error are
\* pairwise mutually exclusive in every reachable state.
C4_ExactlyOneState ==
    /\ ~(loading /\ result # null)
    /\ ~(loading /\ error # null)
    /\ ~(result # null /\ error # null)

\* C4 (amended): loading and a non-null result are mutually exclusive; an
\* error that stands beside loading or beside a result is one of the two
\* Paste-button messages.
C4_LoadingExcludesResult ==
    /\ ~(loading /\ result # null)
    /\ (error # null /\ (loading \/ result # null))
           => error[1] \in PasteMessages

\* C4 witness: a Paste-button error is displayed beside a result.
C4_Witness ==
    result # null /\ error # null /\ ~loading /\ lastOp = "paste:empty"

\* What C5 expects handleLocate to display for a non-2xx answer: the body's
\* error string when the body is JSON with a non-empty error field, the
\* generic message otherwise.
C5_Expected(status, body) ==
    IF body.kind = "object" /\ "error" \in body.has /\ body.error # ""
    THEN body.error
    ELSE "Server Error: " \o ToString(status)

\* C5 (as claimed): a Submit answered with a non-2xx response ends with
\* result null and with error equal to the body's error string, or to
\* "Server Error: <status>" when the body has none.
C5_NonOkMessage ==
    [][lastOp' = "locate:response" =>
          \A r \in InFlight :
              (r.stage = "replied" /\ ~Ok(r.status)) =>
                  /\ result' = null
                  /\ error' = Some(C5_Expected(r.status, r.body))]_vars

\* C6: when the Paste button's clipboard read is rejected, error becomes
\* non-null and result, imageFile, previewUrl and loading keep their values,
\* and no request is sent.
C6_DeniedPasteFrame ==
    [][lastOp' = "paste:denied" =>
          /\ error' # null
          /\ UNCHANGED <<result, imageFile, previewUrl, loading>>
          /\ UNCHANGED <<reqs, nextId>>]_vars

\* C6 witness: the read was rejected while a result was displayed, and the
\* result is still there beside the error.
C6_Witness ==
    /\ lastOp = "paste:denied"
    /\ result # null
    /\ error = Some("Clipboard access denied. Try Ctrl+V.")

\* C7 (as claimed): once handleLocate has settled, by any completion path,
\* loading is false and exactly one of Success (result set, error null) and
\* Error (error set, result null) holds.
C7_SettlesInOneState ==
    lastOp \in SettleOps =>
        /\ ~loading
        /\ \/ (result # null /\ error = null)
           \/ (error # null /\ result = null)

\* C8: a click on Locate while no image is selected sends no request and
\* leaves loading, result, error, imageFile and previewUrl unchanged.
C8_NoImageNoOp ==
    [][(lastOp' \in LocateOps /\ imageFile = null) =>
          /\ UNCHANGED <<loading, result, error, imageFile, previewUrl>>
          /\ UNCHANGED <<reqs, nextId>>]_vars

\* C8 witness: Locate was clicked with no image selected, after a failed
\* paste had left an error on display.
C8_Witness ==
    lastOp = "locate:disabled" /\ imageFile = null /\ error # null

\* The answer the client's handleLocate is resuming with came from the proxy
\* relaying a backend failure.
BackendFailed(r) ==
    r.stage = "replied" /\ r.by = "proxy" /\ r.backendStatus # 0
        /\ ~Ok(r.backendStatus)

\* C9 (as claimed): when the backend answers the proxy with a failure status
\* s and a message m (a text that is not empty), the proxy answers with
\* status s and the client then displays m itself.
C9_BackendMessageVerbatim ==
    [][lastOp' = "locate:response" =>
          \A r \in InFlight :
              (BackendFailed(r) /\ r.backendText # "") =>
                  /\ r.status = r.backendStatus
                  /\ error' = Some(r.backendText)]_vars

\* C9 (amended): the proxy answers with status s and the client displays
\* "GeoAPI error: " followed by m.
C9_BackendMessagePrefixed ==
    [][lastOp' = "locate:response" =>
          \A r \in InFlight :
              BackendFailed(r) =>
                  /\ r.status = r.backendStatus
                  /\ error' = Some("GeoAPI error: " \o r.backendText)
                  /\ result' = null]_vars

\* C9 witness: the backend's 503 "model unavailable" has been displayed.
C9_Witness ==
    /\ lastOp = "locate:response"
    /\ error = Some("GeoAPI error: model unavailable")
    /\ ~loading

\* C10: a request without a file field is answered 400 by the proxy and
\* reaches the backend never; a request with a file field that the proxy has
\* taken up has caused exactly one POST to the backend, whatever came back.
C10_ProxyPostsOnce ==
    /\ \A i \in 1..MaxRequests : backendPosts[i] <= 1
    /\ \A r \in reqs :
        /\ r.file = null => backendPosts[r.id] = 0
        /\ (r.file = null /\ r.by = "proxy") =>
               (r.status = 400 /\ r.body = ErrorObject("No file uploaded"))
        /\ (r.file # null /\ (r.stage = "backend" \/ r.by = "proxy")) =>
               backendPosts[r.id] = 1

\* C10 witness: one request without a file has its 400 while another, with a
\* file, has been answered by the proxy after a backend failure.
C10_Witness ==
    /\ \E r \in reqs : r.file = null /\ r.stage = "replied"
    /\ \E r \in reqs : r.file # null /\ r.by = "proxy" /\ r.status = 503

\* The object URLs that should be alive: the one displayed while the
\* component is mounted, none after it has unmounted.
C11_Displayed ==
    IF mounted /\ previewUrl # null THEN {previewUrl[1]} ELSE {}

\* C11 (as claimed): the unreleased preview URLs are at most the one
\* currently displayed, after any sequence of selections, and none remains
\* once the component has been torn down.
C11_PreviewsReleased == liveUrls = C11_Displayed

\* C12 (as claimed): a Submit whose 2xx body is malformed never shows as
\* Success: whenever the result panel is shown, result has lat, lon and
\* confidence.
C12_SuccessHasAllFields ==
    ResultPanelShown => ResultPanelFields \subseteq result[1].has
====
